---------------------------- MODULE Spec2Model ----------------------------
(***************************************************************************)
(* Chunk-and-commit segmentation controller of python/stt_server.py:       *)
(* the ChunkTracker state machine, transcribe_buffer_chunked (the          *)
(* process_chunk request handler) and reset_session.                       *)
(*                                                                         *)
(* Audio.  A numpy float32 array is modelled run-length encoded: a         *)
(* sequence of segments [n |-> number of samples, a |-> amplitude], every  *)
(* sample of a segment having magnitude a.  Amplitudes and RMS values are  *)
(* fixed-point numbers in units of 0.0001 (0.015 is 150, 0.08 is 800);     *)
(* Rms is the floor of the true root-mean-square in that unit.             *)
(*                                                                         *)
(* Text.  A Python str is a sequence of one-character strings; the token   *)
(* "<unk>" of the recogniser is one element.                               *)
(***************************************************************************)
EXTENDS Integers, Sequences, FiniteSets, TLC

VARIABLES
    chunk_tracker,   \* the global _chunk_tracker (stt_server.py:378)
    full_audio,      \* audio of the latest transcribe_buffer_chunked request
    total_samples,   \* total_samples of the latest request
    transcribed,     \* what the latest request handed to _transcribe_audio
    result,          \* the response of the latest request
    entry,           \* _chunk_tracker as it was when the latest request began
    op,              \* the latest request's action
    calls,           \* number of requests served so far
    reported,        \* SpecTotals: the total_samples values reported since the session began
    nondecreasing,   \* SpecTotals: no request of the session reported less than the one before
    brand_new,       \* SpecReset: a never-used tracker given the requests since the reset
    seeded,          \* SpecReset: the same, constructed with the calibration kept at the reset
    committed_chunks \* SpecStream: the commits of the session, in order

vars == <<chunk_tracker, full_audio, total_samples, transcribed, result, entry, op, calls,
          reported, nondecreasing, brand_new, seeded, committed_chunks>>

---------------------------------------------------------------------------
(* Program constants (samples at 16 kHz, RMS in units of 0.0001)           *)

SAMPLE_RATE == 16000
SILENCE_THRESHOLD == 150
SILENCE_SAMPLES == 5600
FORCE_COMMIT_SECONDS == 8
FORCE_COMMIT_SAMPLES == FORCE_COMMIT_SECONDS * SAMPLE_RATE
MIN_CHUNK_SAMPLES == 12800
MIN_REQUEST_SAMPLES == 4000
MINIMUM_SPEECH_RMS == 250
INITIAL_SPEECH_RMS == 800
HISTORY_CAPACITY == 50
HISTORY_STALE == 100

---------------------------------------------------------------------------
(* Bounds of the model                                                     *)

\* requests served in one behaviour of Spec, SpecSync, SpecCalib, SpecReset
MaxCalls == 4
MaxSyncCalls == 5
MaxCalibCalls == 54
MaxResetCalls == 4
MaxTotalsCalls == 4
MaxSpeechCalls == 40
MaxStreamCalls == 4

---------------------------------------------------------------------------
(* Arithmetic helpers                                                      *)

Min(a, b) == IF a < b THEN a ELSE b

RECURSIVE Gcd(_, _)
Gcd(a, b) == IF b = 0 THEN a ELSE Gcd(b, a % b)

\* floor of the square root
RECURSIVE SqrtSearch(_, _, _)
SqrtSearch(m, lo, hi) ==
    IF lo >= hi THEN lo
    ELSE LET mid == (lo + hi + 1) \div 2
         IN  IF mid * mid <= m THEN SqrtSearch(m, mid, hi)
             ELSE SqrtSearch(m, lo, mid - 1)

ISqrt(m) == SqrtSearch(m, 0, 46340)

RECURSIVE SumSeq(_)
SumSeq(s) == IF s = <<>> THEN 0 ELSE Head(s) + SumSeq(Tail(s))

---------------------------------------------------------------------------
(* Audio arrays                                                            *)

Seg(n, a) == [n |-> n, a |-> a]

\* the segments the requests are made of: silence (0.003), faint noise (0.020),
\* quiet sound (0.028), soft speech (0.04) and steady speech (0.10)
Menu == {Seg(2000, 1000), Seg(14000, 30), Seg(14000, 200), Seg(128000, 1000)}
SyncMenu == {Seg(0, 30), Seg(2000, 1000), Seg(14000, 30), Seg(20000, 1000), Seg(128000, 1000)}
\* silence, and speech from 0.04 upwards in steps of 0.001
CalibMenu == {Seg(14000, 30)} \cup {Seg(14000, 400 + 10 * k) : k \in 0..MaxCalibCalls}
ResetMenu == {Seg(2000, 200), Seg(4000, 400), Seg(4000, 280), Seg(14000, 30)}
TotalsMenu == {Seg(2000, 1000), Seg(4000, 30), Seg(14000, 30)}
SpeechMenu == {Seg(8000, 1000), Seg(64000, 1000)}
SegLens == {s.n : s \in Menu \cup SyncMenu \cup CalibMenu \cup ResetMenu \cup TotalsMenu \cup SpeechMenu}

RECURSIVE GcdOf(_)
GcdOf(S) == IF S = {} THEN 0
            ELSE LET x == CHOOSE y \in S : TRUE IN Gcd(x, GcdOf(S \ {x}))

\* every array the requests supply and every slice the handler takes is a whole
\* number of grains long, so the sums below are exact
Grain == GcdOf(SegLens \cup {SAMPLE_RATE, MIN_REQUEST_SAMPLES})

\* len(audio)
AudioLen(audio) == SumSeq([i \in 1..Len(audio) |-> audio[i].n])

\* run-length normal form: no empty segment, no two neighbours of one amplitude
RECURSIVE Normal(_)
Normal(audio) ==
    IF audio = <<>> THEN <<>>
    ELSE LET h == Head(audio)
             r == Normal(Tail(audio))
         IN  IF h.n = 0 THEN r
             ELSE IF r # <<>> /\ r[1].a = h.a
                  THEN <<Seg(h.n + r[1].n, h.a)>> \o Tail(r)
                  ELSE <<h>> \o r

\* audio[k:] for 0 <= k
RECURSIVE Drop(_, _)
Drop(audio, k) ==
    IF audio = <<>> \/ k <= 0 THEN audio
    ELSE IF Head(audio).n <= k THEN Drop(Tail(audio), k - Head(audio).n)
         ELSE <<Seg(Head(audio).n - k, Head(audio).a)>> \o Tail(audio)

\* audio[-k:] for 0 < k <= len(audio)
LastSamples(audio, k) == Drop(audio, AudioLen(audio) - k)

\* np.sqrt(np.mean(chunk ** 2))
Rms(chunk) ==
    LET cnt == SumSeq([i \in 1..Len(chunk) |-> chunk[i].n \div Grain])
        sq  == SumSeq([i \in 1..Len(chunk) |-> (chunk[i].n \div Grain) * chunk[i].a * chunk[i].a])
    IN  IF cnt = 0 THEN 0 ELSE ISqrt(sq \div cnt)

---------------------------------------------------------------------------
(* Text                                                                    *)

RECURSIVE lstrip(_)
lstrip(s) == IF s # <<>> /\ Head(s) = " " THEN lstrip(Tail(s)) ELSE s

RECURSIVE rstrip(_)
rstrip(s) == IF s # <<>> /\ s[Len(s)] = " " THEN rstrip(SubSeq(s, 1, Len(s) - 1)) ELSE s

\* str.strip()
strip(s) == rstrip(lstrip(s))

\* str.endswith(' ')
endswith_space(s) == s # <<>> /\ s[Len(s)] = " "

\* re.sub(r'<unk>', '', text)
RECURSIVE remove_unk(_)
remove_unk(s) ==
    IF s = <<>> THEN <<>>
    ELSE IF Head(s) = "<unk>" THEN remove_unk(Tail(s))
         ELSE <<Head(s)>> \o remove_unk(Tail(s))

\* re.sub(r'\s+', ' ', text)
RECURSIVE collapse_spaces(_)
collapse_spaces(s) ==
    IF s = <<>> THEN <<>>
    ELSE IF Head(s) = " " /\ Tail(s) # <<>> /\ Head(Tail(s)) = " "
         THEN collapse_spaces(Tail(s))
         ELSE <<Head(s)>> \o collapse_spaces(Tail(s))

filter_unk_tokens(text) == strip(collapse_spaces(remove_unk(text)))

\* _transcribe_audio on a recogniser output raw: result.text.strip(), filtered
transcribe_audio(raw) == filter_unk_tokens(strip(raw))

IsPrefix(s, t) == Len(s) <= Len(t) /\ SubSeq(t, 1, Len(s)) = s

---------------------------------------------------------------------------
(* class ChunkTracker: a tracker is a record of its fields; a method that  *)
(* mutates self is an operator from the tracker to the mutated tracker.    *)
(* (pending_audio is None throughout and is left out.)                     *)

\* ChunkTracker.__init__
NewChunkTracker ==
    [committed_text       |-> <<>>,
     committed_samples    |-> 0,
     last_commit_sample   |-> 0,
     silence_sample_count |-> 0,
     speech_rms_history   |-> <<>>,
     average_speech_rms   |-> INITIAL_SPEECH_RMS]

reset_keeps_text(t) ==
    [t EXCEPT !.committed_samples = 0,
              !.last_commit_sample = 0,
              !.silence_sample_count = 0]

reset_keeps_last_commit(t) ==
    [t EXCEPT !.committed_text = <<>>,
              !.committed_samples = 0,
              !.silence_sample_count = 0]

\* ChunkTracker.reset
reset(t) ==
    [t EXCEPT !.committed_text = <<>>,
              !.committed_samples = 0,
              !.last_commit_sample = 0,
              !.silence_sample_count = 0,
              !.speech_rms_history =
                  IF Len(@) > HISTORY_STALE
                  THEN SubSeq(@, Len(@) - HISTORY_CAPACITY + 1, Len(@))
                  ELSE @]

should_force_commit_strict(t, current_sample) ==
    current_sample - t.last_commit_sample > FORCE_COMMIT_SAMPLES

\* no force limit
should_force_commit_never(t, current_sample) == FALSE

\* the force limit a second late
should_force_commit_late(t, current_sample) ==
    current_sample - t.last_commit_sample >= FORCE_COMMIT_SAMPLES + SAMPLE_RATE

\* ChunkTracker.should_force_commit
should_force_commit(t, current_sample) ==
    LET samples_since_commit == current_sample - t.last_commit_sample
    IN  samples_since_commit >= FORCE_COMMIT_SAMPLES

\* the calibration branch without the eviction
update_speech_rms_unbounded(t, rms) ==
    IF rms > SILENCE_THRESHOLD * 2
    THEN LET history == Append(t.speech_rms_history, rms)
         IN  [t EXCEPT !.speech_rms_history = history,
                       !.average_speech_rms = SumSeq(history) \div Len(history)]
    ELSE t

\* the calibration branch averaging the initial estimate in
update_speech_rms_seeded(t, rms) ==
    IF rms > SILENCE_THRESHOLD * 2
    THEN LET appended == Append(t.speech_rms_history, rms)
             history  == IF Len(appended) > HISTORY_CAPACITY THEN Tail(appended) ELSE appended
         IN  [t EXCEPT !.speech_rms_history = history,
                       !.average_speech_rms =
                           (INITIAL_SPEECH_RMS + SumSeq(history)) \div (Len(history) + 1)]
    ELSE t

\* the calibration branch of detect_silence, lines 281-285
update_speech_rms(t, rms) ==
    IF rms > SILENCE_THRESHOLD * 2
    THEN LET appended == Append(t.speech_rms_history, rms)
             history  == IF Len(appended) > HISTORY_CAPACITY THEN Tail(appended) ELSE appended
         IN  [t EXCEPT !.speech_rms_history = history,
                       !.average_speech_rms = SumSeq(history) \div Len(history)]
    ELSE t

\* the silence branch counting the window alone
silence_step_restarts(t, rms, chunk_len) ==
    LET is_silence == rms < SILENCE_THRESHOLD
    IN  IF is_silence
        THEN [t EXCEPT !.silence_sample_count = chunk_len]
        ELSE update_speech_rms([t EXCEPT !.silence_sample_count = 0], rms)

\* the silence branch counting no sample of the window twice
silence_step_counts_once(t, rms, chunk_len) ==
    LET is_silence == rms < SILENCE_THRESHOLD
    IN  IF is_silence
        THEN [t EXCEPT !.silence_sample_count = IF chunk_len > @ THEN chunk_len ELSE @]
        ELSE update_speech_rms([t EXCEPT !.silence_sample_count = 0], rms)

\* the speech branch leaving the silence run as it was
silence_step_keeps_run(t, rms, chunk_len) ==
    LET is_silence == rms < SILENCE_THRESHOLD
    IN  IF is_silence
        THEN [t EXCEPT !.silence_sample_count = @ + chunk_len]
        ELSE update_speech_rms(t, rms)

\* lines 274-287 of detect_silence, rms and len(audio_chunk) computed
silence_step(t, rms, chunk_len) ==
    LET is_silence == rms < SILENCE_THRESHOLD
    IN  IF is_silence
        THEN [t EXCEPT !.silence_sample_count = @ + chunk_len]
        ELSE update_speech_rms([t EXCEPT !.silence_sample_count = 0], rms)

\* line 287: the returned flag, beside the mutated tracker
with_pause_flag(t) == [tracker |-> t, ret |-> t.silence_sample_count >= SILENCE_SAMPLES]

\* ChunkTracker.detect_silence: the mutated tracker and the returned flag
detect_silence(t, audio_chunk) ==
    with_pause_flag(silence_step(t, Rms(audio_chunk), AudioLen(audio_chunk)))

\* the absolute floor alone
noise_test_absolute_only(t, rms) ==
    IF rms <= SILENCE_THRESHOLD THEN FALSE
    ELSE rms < MINIMUM_SPEECH_RMS

\* the two tests without the silence guard before them
noise_test_unguarded(t, rms) ==
    IF rms < MINIMUM_SPEECH_RMS THEN TRUE
    ELSE rms * 10 < t.average_speech_rms * 4

\* lines 302-323 of is_low_volume_noise, rms computed
noise_test(t, rms) ==
    IF rms <= SILENCE_THRESHOLD THEN FALSE
    ELSE IF rms < MINIMUM_SPEECH_RMS THEN TRUE
    ELSE rms * 10 < t.average_speech_rms * 4   \* rms < average_speech_rms * 0.4

\* ChunkTracker.is_low_volume_noise
is_low_volume_noise(t, audio_chunk) == noise_test(t, Rms(audio_chunk))

\* should_commit without the minimum chunk size
should_commit_no_floor(t, current_sample, has_pause) ==
    has_pause \/ should_force_commit(t, current_sample)

\* should_commit measuring the minimum chunk size from sample 0
should_commit_floor_from_zero(t, current_sample, has_pause) ==
    IF current_sample < MIN_CHUNK_SAMPLES THEN FALSE
    ELSE has_pause \/ should_force_commit(t, current_sample)

\* ChunkTracker.should_commit
should_commit(t, current_sample, has_pause) ==
    LET samples_since_commit == current_sample - t.last_commit_sample
    IN  IF samples_since_commit < MIN_CHUNK_SAMPLES THEN FALSE
        ELSE has_pause \/ should_force_commit(t, current_sample)

\* commit storing the text alone and the count of newly committed samples
commit_overwrites(t, text, sample_position) ==
    [t EXCEPT !.committed_text = strip(text),
              !.committed_samples = sample_position - t.committed_samples,
              !.last_commit_sample = sample_position,
              !.silence_sample_count = 0]

\* commit moving the boundary to the end of the next second
commit_past_position(t, text, sample_position) ==
    [t EXCEPT !.committed_text = @ \o strip(text),
              !.committed_samples = sample_position + SAMPLE_RATE,
              !.last_commit_sample = sample_position,
              !.silence_sample_count = 0]

\* commit leaving the silence run as it is
commit_keeps_run(t, text, sample_position) ==
    [t EXCEPT !.committed_text =
                  IF strip(text) # <<>>
                  THEN (IF @ # <<>> /\ ~endswith_space(@) THEN @ \o <<" ">> ELSE @)
                       \o strip(text)
                  ELSE @,
              !.committed_samples = sample_position,
              !.last_commit_sample = sample_position]

\* commit putting a space before every chunk
commit_always_spaces(t, text, sample_position) ==
    [t EXCEPT !.committed_text =
                  IF strip(text) # <<>>
                  THEN (IF ~endswith_space(@) THEN @ \o <<" ">> ELSE @) \o strip(text)
                  ELSE @,
              !.committed_samples = sample_position,
              !.last_commit_sample = sample_position,
              !.silence_sample_count = 0]

\* commit moving the slicing boundary alone
commit_boundary_only(t, text, sample_position) ==
    [t EXCEPT !.committed_text =
                  IF strip(text) # <<>>
                  THEN (IF @ # <<>> /\ ~endswith_space(@) THEN @ \o <<" ">> ELSE @)
                       \o strip(text)
                  ELSE @,
              !.committed_samples = sample_position,
              !.silence_sample_count = 0]

\* commit putting the new chunk before the text committed so far
commit_prepends(t, text, sample_position) ==
    [t EXCEPT !.committed_text =
                  IF strip(text) # <<>>
                  THEN strip(text) \o (IF @ # <<>> THEN <<" ">> \o @ ELSE @)
                  ELSE @,
              !.committed_samples = sample_position,
              !.last_commit_sample = sample_position,
              !.silence_sample_count = 0]

\* ChunkTracker.commit
commit(t, text, sample_position) ==
    LET spaced == IF t.committed_text # <<>> /\ ~endswith_space(t.committed_text)
                  THEN t.committed_text \o <<" ">>
                  ELSE t.committed_text
        new_text == IF strip(text) # <<>> THEN spaced \o strip(text) ELSE t.committed_text
    IN  [t EXCEPT !.committed_text = new_text,
                  !.committed_samples = sample_position,
                  !.last_commit_sample = sample_position,
                  !.silence_sample_count = 0]

---------------------------------------------------------------------------
(* Responses.  A key the handler leaves out of the dict is "absent" (a     *)
(* string key), -1 (commit_sample), <<>> (a text) or FALSE (a flag).       *)
(* inference_time_ms and audio_duration_ms are not modelled.               *)

Absent == "absent"

ErrorResult(msg) ==
    [type |-> "error", error |-> msg, committed_text |-> <<>>, partial_text |-> <<>>,
     is_final |-> FALSE, commit_sample |-> -1, commit_reason |-> Absent,
     skipped_low_volume |-> FALSE]

SuccessResult(ctext, ptext, final, sample, reason, skipped) ==
    [type |-> "success", error |-> Absent, committed_text |-> ctext, partial_text |-> ptext,
     is_final |-> final, commit_sample |-> sample, commit_reason |-> reason,
     skipped_low_volume |-> skipped]

\* reset_session's {"type": "success", "message": "Session reset"}
ResetResult ==
    [type |-> "success", error |-> Absent, committed_text |-> <<>>, partial_text |-> <<>>,
     is_final |-> FALSE, commit_sample |-> -1, commit_reason |-> Absent,
     skipped_low_volume |-> FALSE]

NoResult ==
    [type |-> Absent, error |-> Absent, committed_text |-> <<>>, partial_text |-> <<>>,
     is_final |-> FALSE, commit_sample |-> -1, commit_reason |-> Absent,
     skipped_low_volume |-> FALSE]

\* what a request handed to _transcribe_audio, and what came back
NotTranscribed == [called |-> FALSE, samples |-> <<>>, raised |-> FALSE, text |-> <<>>]
Transcribed(samples, outcome) ==
    [called |-> TRUE, samples |-> samples, raised |-> outcome.raises,
     text |-> IF outcome.raises THEN <<>> ELSE transcribe_audio(outcome.text)]

---------------------------------------------------------------------------
(* transcribe_buffer_chunked, with the model loaded.  outcome is what the  *)
(* recogniser does if it is called: raise, or return the text raw.         *)

\* the slice replaced by the whole array every time
uncommitted_of_whole(t, audio) == audio

\* lines 508-509
uncommitted_of(t, audio) ==
    LET uncommitted_start == t.committed_samples
    IN  IF uncommitted_start < AudioLen(audio) THEN Drop(audio, uncommitted_start) ELSE audio

decide_commit_blank_too(t1, has_pause, uncommitted_audio, total, outcome, partial_text) ==
    IF should_commit(t1, total, has_pause)
    THEN [tracker |-> commit(t1, partial_text, total),
          result |-> SuccessResult(commit(t1, partial_text, total).committed_text, <<>>,
                                   TRUE, total, IF has_pause THEN "pause" ELSE "force",
                                   FALSE),
          transcribed |-> Transcribed(uncommitted_audio, outcome)]
    ELSE [tracker |-> t1,
          result |-> SuccessResult(t1.committed_text, partial_text, FALSE,
                                   t1.committed_samples, Absent, FALSE),
          transcribed |-> Transcribed(uncommitted_audio, outcome)]

\* the commit decision answering with the boundary held before the commit
decide_commit_old_boundary(t1, has_pause, uncommitted_audio, total, outcome, partial_text) ==
    IF should_commit(t1, total, has_pause) /\ strip(partial_text) # <<>>
    THEN [tracker |-> commit(t1, partial_text, total),
          result |-> SuccessResult(commit(t1, partial_text, total).committed_text, <<>>,
                                   TRUE, t1.committed_samples,
                                   IF has_pause THEN "pause" ELSE "force", FALSE),
          transcribed |-> Transcribed(uncommitted_audio, outcome)]
    ELSE [tracker |-> t1,
          result |-> SuccessResult(t1.committed_text, partial_text, FALSE,
                                   t1.committed_samples, Absent, FALSE),
          transcribed |-> Transcribed(uncommitted_audio, outcome)]

\* the commit decision answering an uncommitted span with no partial text
decide_commit_drops_partial(t1, has_pause, uncommitted_audio, total, outcome, partial_text) ==
    IF should_commit(t1, total, has_pause) /\ strip(partial_text) # <<>>
    THEN [tracker |-> commit(t1, partial_text, total),
          result |-> SuccessResult(commit(t1, partial_text, total).committed_text, <<>>,
                                   TRUE, total, IF has_pause THEN "pause" ELSE "force",
                                   FALSE),
          transcribed |-> Transcribed(uncommitted_audio, outcome)]
    ELSE [tracker |-> t1,
          result |-> SuccessResult(t1.committed_text, <<>>, FALSE,
                                   t1.committed_samples, Absent, FALSE),
          transcribed |-> Transcribed(uncommitted_audio, outcome)]

\* the commit decision naming the force limit first
decide_commit_force_first(t1, has_pause, uncommitted_audio, total, outcome, partial_text) ==
    IF should_commit(t1, total, has_pause) /\ strip(partial_text) # <<>>
    THEN [tracker |-> commit(t1, partial_text, total),
          result |-> SuccessResult(commit(t1, partial_text, total).committed_text, <<>>,
                                   TRUE, total,
                                   IF should_force_commit(t1, total) THEN "force" ELSE "pause",
                                   FALSE),
          transcribed |-> Transcribed(uncommitted_audio, outcome)]
    ELSE [tracker |-> t1,
          result |-> SuccessResult(t1.committed_text, partial_text, FALSE,
                                   t1.committed_samples, Absent, FALSE),
          transcribed |-> Transcribed(uncommitted_audio, outcome)]

\* lines 549-580: the commit decision, the transcription having returned
decide_commit(t1, has_pause, uncommitted_audio, total, outcome, partial_text) ==
    IF should_commit(t1, total, has_pause) /\ strip(partial_text) # <<>>
    THEN [tracker |-> commit(t1, partial_text, total),
          result |-> SuccessResult(commit(t1, partial_text, total).committed_text, <<>>,
                                   TRUE, total, IF has_pause THEN "pause" ELSE "force",
                                   FALSE),
          transcribed |-> Transcribed(uncommitted_audio, outcome)]
    ELSE [tracker |-> t1,
          result |-> SuccessResult(t1.committed_text, partial_text, FALSE,
                                   t1.committed_samples, Absent, FALSE),
          transcribed |-> Transcribed(uncommitted_audio, outcome)]

after_pause_check_error_commits(ds, uncommitted_audio, total, outcome) ==
    IF is_low_volume_noise(ds.tracker, uncommitted_audio)
    THEN [tracker |-> ds.tracker,
          result |-> SuccessResult(ds.tracker.committed_text, <<>>, FALSE,
                                   ds.tracker.committed_samples, Absent, TRUE),
          transcribed |-> NotTranscribed]
    ELSE IF outcome.raises
    THEN [tracker |-> commit(ds.tracker, <<>>, total),
          result |-> ErrorResult("transcription failed"),
          transcribed |-> Transcribed(uncommitted_audio, outcome)]
    ELSE decide_commit(ds.tracker, ds.ret, uncommitted_audio, total, outcome,
                       transcribe_audio(outcome.text))

\* the noise skip closing the chunk at total_samples
after_pause_check_skip_commits(ds, uncommitted_audio, total, outcome) ==
    IF is_low_volume_noise(ds.tracker, uncommitted_audio)
    THEN [tracker |-> commit(ds.tracker, <<>>, total),
          result |-> SuccessResult(ds.tracker.committed_text, <<>>, FALSE,
                                   ds.tracker.committed_samples, Absent, TRUE),
          transcribed |-> NotTranscribed]
    ELSE IF outcome.raises
    THEN [tracker |-> ds.tracker, result |-> ErrorResult("transcription failed"),
          transcribed |-> Transcribed(uncommitted_audio, outcome)]
    ELSE decide_commit(ds.tracker, ds.ret, uncommitted_audio, total, outcome,
                       transcribe_audio(outcome.text))

\* the noise skip clearing the silence run
after_pause_check_skip_clears_run(ds, uncommitted_audio, total, outcome) ==
    IF is_low_volume_noise(ds.tracker, uncommitted_audio)
    THEN [tracker |-> [ds.tracker EXCEPT !.silence_sample_count = 0],
          result |-> SuccessResult(ds.tracker.committed_text, <<>>, FALSE,
                                   ds.tracker.committed_samples, Absent, TRUE),
          transcribed |-> NotTranscribed]
    ELSE IF outcome.raises
    THEN [tracker |-> ds.tracker, result |-> ErrorResult("transcription failed"),
          transcribed |-> Transcribed(uncommitted_audio, outcome)]
    ELSE decide_commit(ds.tracker, ds.ret, uncommitted_audio, total, outcome,
                       transcribe_audio(outcome.text))

\* lines 530-547 and 582-585: the noise check and the transcription, ds being
\* what detect_silence gave for the tail
after_pause_check(ds, uncommitted_audio, total, outcome) ==
    IF is_low_volume_noise(ds.tracker, uncommitted_audio)
    THEN [tracker |-> ds.tracker,
          result |-> SuccessResult(ds.tracker.committed_text, <<>>, FALSE,
                                   ds.tracker.committed_samples, Absent, TRUE),
          transcribed |-> NotTranscribed]
    ELSE IF outcome.raises
    THEN [tracker |-> ds.tracker, result |-> ErrorResult("transcription failed"),
          transcribed |-> Transcribed(uncommitted_audio, outcome)]
    ELSE decide_commit(ds.tracker, ds.ret, uncommitted_audio, total, outcome,
                       transcribe_audio(outcome.text))

\* lines 511-528: the minimum-uncommitted check and the pause check
with_uncommitted(t, uncommitted_audio, total, outcome) ==
    IF AudioLen(uncommitted_audio) < MIN_REQUEST_SAMPLES
    THEN [tracker |-> t,
          result |-> SuccessResult(t.committed_text, <<>>, FALSE, t.committed_samples,
                                   Absent, FALSE),
          transcribed |-> NotTranscribed]
    ELSE LET tail_samples == Min(SAMPLE_RATE, AudioLen(uncommitted_audio))
             tail_audio == LastSamples(uncommitted_audio, tail_samples)
         IN  after_pause_check(detect_silence(t, tail_audio), uncommitted_audio, total,
                               outcome)

transcribe_buffer_chunked_unchecked(t, audio, total, outcome) ==
    with_uncommitted(t, uncommitted_of(t, audio), total, outcome)

\* transcribe_buffer_chunked: the tracker it leaves, its response and what it
\* handed to _transcribe_audio
transcribe_buffer_chunked(t, audio, total, outcome) ==
    IF AudioLen(audio) < MIN_REQUEST_SAMPLES
    THEN [tracker |-> t, result |-> ErrorResult("Audio too short"),
          transcribed |-> NotTranscribed]
    ELSE with_uncommitted(t, uncommitted_of(t, audio), total, outcome)

---------------------------------------------------------------------------
(* Requests                                                                *)

\* what the recogniser may do: raise, or return one of these raw texts
HelloWorld == <<"h", "e", "l", "l", "o", " ", "w", "o", "r", "l", "d">>
RawHelloWorld == <<" ", "h", "e", "l", "l", "o", " ", "<unk>", " ", "w", "o", "r", "l", "d">>
RawBlank == <<"<unk>", " ">>
Raises == [raises |-> TRUE, text |-> <<>>]
Returns(raw) == [raises |-> FALSE, text |-> raw]
Outcomes == {Raises, Returns(RawBlank), Returns(RawHelloWorld)}

\* a recogniser that tells one chunk from another
Ok == <<"o", "k">>
RawOk == <<"<unk>", " ", "o", "k", " ">>
StreamOutcomes == Outcomes \cup {Returns(RawOk)}

\* the caller's buffer grown by one segment of the menu
Grown(held, menu) == {Normal(held \o <<s>>) : s \in menu}

\* the array of a caller that starts over without a reset_session
Restarted == {<<Seg(2000, 1000)>>}

\* the total_samples a caller may report for an array: its length, or a count
\* that has run ahead of the array
TotalsFor(audio) == {AudioLen(audio), AudioLen(audio) + SAMPLE_RATE}

---------------------------------------------------------------------------
(* Actions                                                                 *)

Init ==
    /\ chunk_tracker = NewChunkTracker
    /\ full_audio = <<>>
    /\ total_samples = 0
    /\ transcribed = NotTranscribed
    /\ result = NoResult
    /\ entry = NewChunkTracker
    /\ op = "init"
    /\ calls = 0
    /\ reported = {}
    /\ nondecreasing = TRUE
    /\ brand_new = [tracker |-> NewChunkTracker, result |-> NoResult, after_reset |-> FALSE]
    /\ seeded = [tracker |-> NewChunkTracker, result |-> NoResult, after_reset |-> FALSE]
    /\ committed_chunks = <<>>

\* one "transcribe_buffer_chunked" command of main's loop
ProcessChunk(audio, total, outcome) ==
    \E r \in {transcribe_buffer_chunked(chunk_tracker, audio, total, outcome)} :
        /\ chunk_tracker' = r.tracker
        /\ result' = r.result
        /\ transcribed' = r.transcribed
        /\ full_audio' = audio
        /\ total_samples' = total
        /\ entry' = chunk_tracker
        /\ op' = "transcribe_buffer_chunked"

\* one "reset_session" command of main's loop; the caller starts a new recording
ResetSession ==
    /\ chunk_tracker' = reset(chunk_tracker)
    /\ result' = ResetResult
    /\ transcribed' = NotTranscribed
    /\ full_audio' = <<>>
    /\ total_samples' = 0
    /\ entry' = chunk_tracker
    /\ op' = "reset_session"

Served(max) == calls < max /\ calls' = calls + 1

(* Spec: a caller whose buffer grows or starts over, and whose count may run  *)
(* ahead of the array                                                        *)

Chunk ==
    /\ Served(MaxCalls)
    /\ \E audio \in Grown(full_audio, Menu) \cup Restarted :
       \E total \in TotalsFor(audio) :
       \E outcome \in Outcomes :
          ProcessChunk(audio, total, outcome)
    /\ UNCHANGED <<reported, nondecreasing, brand_new, seeded, committed_chunks>>

Reset ==
    /\ Served(MaxCalls)
    /\ ResetSession
    /\ UNCHANGED <<reported, nondecreasing, brand_new, seeded, committed_chunks>>

Next == Chunk \/ Reset

Spec == Init /\ [][Next]_vars

(* SpecSync: a caller that reports total_samples = len(full_audio), and may  *)
(* ask again before new audio has arrived                                    *)

SyncChunk ==
    /\ Served(MaxSyncCalls)
    /\ \E audio \in Grown(full_audio, SyncMenu) :
       \E outcome \in Outcomes :
          ProcessChunk(audio, AudioLen(audio), outcome)
    /\ UNCHANGED <<reported, nondecreasing, brand_new, seeded, committed_chunks>>

SyncReset ==
    /\ Served(MaxSyncCalls)
    /\ ResetSession
    /\ UNCHANGED <<reported, nondecreasing, brand_new, seeded, committed_chunks>>

NextSync == SyncChunk \/ SyncReset

SpecSync == Init /\ [][NextSync]_vars

(* SpecCalib: a caller that sends a new one-second-or-so array each time,   *)
(* long enough for the calibration history to fill and overflow; each array *)
(* is silent, or speech one step louder than the last speech the tracker    *)
(* took into its history, so that every entry of the history is told apart  *)

\* the loudness of the speaker's next speech array
Louder(t) ==
    IF t.speech_rms_history = <<>> THEN 400
    ELSE t.speech_rms_history[Len(t.speech_rms_history)] + 10

CalibChunk ==
    /\ Served(MaxCalibCalls)
    /\ \E s \in CalibMenu :
          /\ s.a < SILENCE_THRESHOLD \/ s.a = Louder(chunk_tracker)
          /\ ProcessChunk(<<s>>, s.n, Returns(RawHelloWorld))
    /\ UNCHANGED <<reported, nondecreasing, brand_new, seeded, committed_chunks>>

CalibReset ==
    /\ Served(MaxCalibCalls)
    /\ ResetSession
    /\ UNCHANGED <<reported, nondecreasing, brand_new, seeded, committed_chunks>>

NextCalib == CalibChunk \/ CalibReset

SpecCalib == Init /\ [][NextCalib]_vars

(* SpecReset: beside _chunk_tracker, two trackers constructed at each        *)
(* reset_session are given the same requests and the same recogniser         *)
(* outcomes: brand_new is ChunkTracker(), seeded is ChunkTracker() with the  *)
(* calibration fields _chunk_tracker held at the reset                       *)

\* a tracker serving one request beside _chunk_tracker
Beside(twin, audio, total, outcome) ==
    LET r == transcribe_buffer_chunked(twin.tracker, audio, total, outcome)
    IN  [tracker |-> r.tracker, result |-> r.result, after_reset |-> twin.after_reset]

TwinChunk ==
    /\ Served(MaxResetCalls)
    /\ \E audio \in Grown(full_audio, ResetMenu) :
       \E outcome \in {Returns(RawBlank), Returns(RawHelloWorld)} :
          /\ ProcessChunk(audio, AudioLen(audio), outcome)
          /\ brand_new' = Beside(brand_new, audio, AudioLen(audio), outcome)
          /\ seeded' = Beside(seeded, audio, AudioLen(audio), outcome)
    /\ UNCHANGED <<reported, nondecreasing, committed_chunks>>

TwinReset ==
    /\ Served(MaxResetCalls)
    /\ ResetSession
    /\ brand_new' = [tracker |-> NewChunkTracker, result |-> ResetResult,
                     after_reset |-> TRUE]
    /\ seeded' = [tracker |-> [NewChunkTracker EXCEPT
                                  !.speech_rms_history = chunk_tracker.speech_rms_history,
                                  !.average_speech_rms = chunk_tracker.average_speech_rms],
                  result |-> ResetResult, after_reset |-> TRUE]
    /\ UNCHANGED <<reported, nondecreasing, committed_chunks>>

NextReset == TwinChunk \/ TwinReset

SpecReset == Init /\ [][NextReset]_vars

(* SpecTotals: the total_samples the caller has reported since the session  *)
(* began are kept beside _chunk_tracker; the caller's buffer grows or starts *)
(* over and its count may run ahead of the array                             *)

TotalsChunk ==
    /\ Served(MaxTotalsCalls)
    /\ \E audio \in Grown(full_audio, TotalsMenu) \cup Restarted :
       \E total \in TotalsFor(audio) :
       \E outcome \in {Returns(RawBlank), Returns(RawHelloWorld)} :
          /\ ProcessChunk(audio, total, outcome)
          /\ reported' = reported \cup {total}
          /\ nondecreasing' = (nondecreasing /\ total >= total_samples)
    /\ UNCHANGED <<brand_new, seeded, committed_chunks>>

TotalsReset ==
    /\ Served(MaxTotalsCalls)
    /\ ResetSession
    /\ reported' = {}
    /\ nondecreasing' = TRUE
    /\ UNCHANGED <<brand_new, seeded, committed_chunks>>

NextTotals == TotalsChunk \/ TotalsReset

SpecTotals == Init /\ [][NextTotals]_vars

(* SpecSpeech: uninterrupted speech.  The caller's buffer grows by half a    *)
(* second or by four seconds of steady speech a request, total_samples is   *)
(* its length and every transcription returns text; the caller sends the     *)
(* next request for as long as the recording lasts (MaxSpeechCalls requests) *)
(* and main's loop serves every request it reads: the count of requests     *)
(* served keeps rising until the recording ends.                             *)

SpeechChunk ==
    /\ Served(MaxSpeechCalls)
    /\ \E audio \in Grown(full_audio, SpeechMenu) :
          ProcessChunk(audio, AudioLen(audio), Returns(RawHelloWorld))
    /\ UNCHANGED <<reported, nondecreasing, brand_new, seeded, committed_chunks>>

NextSpeech == SpeechChunk

SpecSpeech == Init /\ [][NextSpeech]_vars /\ WF_calls(Served(MaxSpeechCalls))

(* SpecStream: one stream per session.  The caller's buffer only grows, the *)
(* caller reports total_samples = len(full_audio), and the recogniser tells *)
(* one chunk from another.  committed_chunks keeps, for every commit since  *)
(* the session began, the boundary before and after it, the samples handed  *)
(* to _transcribe_audio and the text that came back.                        *)

\* the commit of the request just served, if it made one
Committed(before, after, handed) ==
    IF after.committed_samples # before.committed_samples
       \/ after.committed_text # before.committed_text
    THEN <<[from |-> before.committed_samples, to |-> after.committed_samples,
            samples |-> handed.samples, text |-> handed.text]>>
    ELSE <<>>

StreamChunk ==
    /\ Served(MaxStreamCalls)
    /\ \E audio \in Grown(full_audio, SyncMenu) :
       \E outcome \in StreamOutcomes :
          ProcessChunk(audio, AudioLen(audio), outcome)
    /\ committed_chunks' =
           committed_chunks \o Committed(chunk_tracker, chunk_tracker', transcribed')
    /\ UNCHANGED <<reported, nondecreasing, brand_new, seeded>>

StreamReset ==
    /\ Served(MaxStreamCalls)
    /\ ResetSession
    /\ committed_chunks' = <<>>
    /\ UNCHANGED <<reported, nondecreasing, brand_new, seeded>>

NextStream == StreamChunk \/ StreamReset

SpecStream == Init /\ [][NextStream]_vars

---------------------------------------------------------------------------
(* Properties.  In a state with op = "transcribe_buffer_chunked" the        *)
(* latest request is described by full_audio, total_samples, entry (the     *)
(* tracker at its entry), transcribed, result and chunk_tracker (the        *)
(* tracker at its exit).                                                    *)

IsChunk == op = "transcribe_buffer_chunked"

\* the latest request's uncommitted span, trailing window and pause flag,
\* computed from the tracker at entry
EntryUncommitted == uncommitted_of(entry, full_audio)
EntryTail ==
    LastSamples(EntryUncommitted, Min(SAMPLE_RATE, AudioLen(EntryUncommitted)))
EntryPause == detect_silence(entry, EntryTail).ret

\* the commit fields of the tracker are as they were at entry
CommitFieldsKept ==
    /\ chunk_tracker.committed_text = entry.committed_text
    /\ chunk_tracker.committed_samples = entry.committed_samples
    /\ chunk_tracker.last_commit_sample = entry.last_commit_sample

\* the transcription returned (did not raise) and its text is blank / not blank
ReturnedBlank == transcribed.called /\ ~transcribed.raised /\ strip(transcribed.text) = <<>>
ReturnedText == transcribed.called /\ ~transcribed.raised /\ strip(transcribed.text) # <<>>

\* C1: no transcribe_buffer_chunked call lowers committed_samples, and the
\* committed_text held before a call is a prefix of the committed_text held
\* after it.  (It holds for every total_samples the caller reports, so in
\* particular along non-decreasing ones.)
C1_CommittedOnlyGrows ==
    IsChunk =>
        /\ chunk_tracker.committed_samples >= entry.committed_samples
        /\ IsPrefix(entry.committed_text, chunk_tracker.committed_text)

\* a call that committed onto committed text already there
C1_Witness ==
    /\ IsChunk
    /\ result.is_final
    /\ entry.committed_text # <<>>
    /\ chunk_tracker.committed_samples > entry.committed_samples
    /\ Len(chunk_tracker.committed_text) > Len(entry.committed_text)

\* C2: whenever a call invokes the transcription, the samples it hands over
\* are exactly full_audio[committed_samples:] for the boundary at entry.
C2_OnlyUncommittedTranscribed ==
    (IsChunk /\ transcribed.called) =>
        transcribed.samples = Drop(full_audio, entry.committed_samples)

\* C3: with at least 4,000 samples in full_audio and total_samples -
\* committed_samples < 4,000 at entry, the transcription is not invoked, the
\* tracker is unchanged and the response is the prior committed state.
C3_ShortSpanNotTranscribed ==
    (/\ IsChunk
     /\ AudioLen(full_audio) >= MIN_REQUEST_SAMPLES
     /\ total_samples - entry.committed_samples < MIN_REQUEST_SAMPLES) =>
        /\ ~transcribed.called
        /\ chunk_tracker = entry
        /\ result = SuccessResult(entry.committed_text, <<>>, FALSE,
                                  entry.committed_samples, Absent, FALSE)

\* C4: a call whose transcription is blank commits nothing, whatever the
\* commit policy says: the commit fields keep their values and is_final is
\* false.
C4_BlankNeverCommits ==
    (IsChunk /\ ReturnedBlank) =>
        /\ CommitFieldsKept
        /\ result.type = "success"
        /\ result.is_final = FALSE
        /\ result.commit_sample = entry.committed_samples

\* a blank transcription in a call where should_commit is true
C4_Witness ==
    /\ IsChunk
    /\ ReturnedBlank
    /\ should_commit(detect_silence(entry, EntryTail).tracker, total_samples, EntryPause)

C6_TooShortIsError ==
    (IsChunk /\ AudioLen(full_audio) < MIN_REQUEST_SAMPLES) =>
        /\ result = ErrorResult("Audio too short")
        /\ ~transcribed.called
        /\ chunk_tracker = entry

\* a too-short array sent to a tracker that has committed, with a
\* total_samples that is not the array's length
C6_Witness ==
    /\ IsChunk
    /\ AudioLen(full_audio) < MIN_REQUEST_SAMPLES
    /\ entry.committed_samples > 0
    /\ total_samples # AudioLen(full_audio)
    /\ result.type = "error"

\* C7: a call with total_samples - last_commit_sample >= 128,000, no pause
\* detected and a non-blank transcription (so the span was not skipped as
\* noise) commits with reason "force" at total_samples.
C7_ForceCommit ==
    (/\ IsChunk
     /\ ReturnedText
     /\ ~EntryPause
     /\ total_samples - entry.last_commit_sample >= FORCE_COMMIT_SAMPLES) =>
        /\ result.is_final
        /\ result.commit_reason = "force"
        /\ chunk_tracker.committed_samples = total_samples
        /\ chunk_tracker.last_commit_sample = total_samples

\* a forced commit exactly 128,000 samples after an earlier commit
C7_Witness ==
    /\ IsChunk
    /\ result.is_final
    /\ result.commit_reason = "force"
    /\ entry.last_commit_sample > 0
    /\ total_samples - entry.last_commit_sample = FORCE_COMMIT_SAMPLES

\* C8: from a reset session, 20,000 samples of steady speech (0.10) and then
\* the same followed by 14,000 near-silent samples (0.003), total_samples =
\* 34000, the transcription returning "hello world": the second call commits
\* with reason "pause", committed_text "hello world", committed_samples 34000.
C8_PauseScenario ==
    (/\ IsChunk
     /\ entry.committed_text = <<>>
     /\ entry.committed_samples = 0
     /\ entry.last_commit_sample = 0
     /\ entry.silence_sample_count = 0
     /\ entry.speech_rms_history # <<>>
     /\ entry.speech_rms_history[Len(entry.speech_rms_history)] = 1000
     /\ full_audio = <<Seg(20000, 1000), Seg(14000, 30)>>
     /\ total_samples = 34000
     /\ transcribed.called /\ ~transcribed.raised /\ transcribed.text = HelloWorld) =>
        /\ result.is_final
        /\ result.commit_reason = "pause"
        /\ result.committed_text = HelloWorld
        /\ chunk_tracker.committed_samples = 34000

\* C9 as claimed: after reset_session every response is the one a brand-new
\* tracker gives for the same requests and the same transcriptions.
C9_LikeBrandNew ==
    (IsChunk /\ brand_new.after_reset) => result = brand_new.result

\* C9 amended: after reset_session every response is the one given by a new
\* tracker constructed with the speech_rms_history and average_speech_rms
\* that _chunk_tracker held at the reset.
C9_LikeSeeded ==
    (IsChunk /\ seeded.after_reset) => result = seeded.result

\* a response after a reset that a brand-new tracker would not have given
C9_Witness ==
    /\ IsChunk
    /\ seeded.after_reset
    /\ result = seeded.result
    /\ result # brand_new.result

\* C10: reset() leaves committed_text empty and committed_samples,
\* last_commit_sample and silence_sample_count 0, leaves the calibration
\* history and baseline as they were, and would change nothing if applied
\* again; the history never grows past 100, so the trim is never taken.
C10_ResetFrame ==
    /\ Len(chunk_tracker.speech_rms_history) <= HISTORY_STALE
    /\ op = "reset_session" =>
          /\ chunk_tracker.committed_text = <<>>
          /\ chunk_tracker.committed_samples = 0
          /\ chunk_tracker.last_commit_sample = 0
          /\ chunk_tracker.silence_sample_count = 0
          /\ chunk_tracker.speech_rms_history = entry.speech_rms_history
          /\ chunk_tracker.average_speech_rms = entry.average_speech_rms
          /\ reset(chunk_tracker) = chunk_tracker

\* a reset of a tracker with committed text, a silence run and a full history
C10_Witness ==
    /\ op = "reset_session"
    /\ entry.committed_text # <<>>
    /\ entry.committed_samples > 0
    /\ entry.silence_sample_count > 0
    /\ Len(entry.speech_rms_history) = HISTORY_CAPACITY

\* the span full_audio[committed_samples:] of the latest request, and the tracker
\* as detect_silence left it, when that span has at least 4,000 samples
EntrySpan == Drop(full_audio, entry.committed_samples)
EntrySpanLongEnough == AudioLen(EntrySpan) >= MIN_REQUEST_SAMPLES
AfterPauseCheck == detect_silence(entry, EntryTail).tracker

\* the response and the commit fields of a call that skipped the span as noise
NoiseSkipped ==
    /\ ~transcribed.called
    /\ result.type = "success"
    /\ result.skipped_low_volume = TRUE
    /\ result.is_final = FALSE
    /\ result.partial_text = <<>>
    /\ CommitFieldsKept

PolicyDistances ==
    {0 - MIN_CHUNK_SAMPLES, 0, MIN_CHUNK_SAMPLES - 1, MIN_CHUNK_SAMPLES,
     FORCE_COMMIT_SAMPLES - 1, FORCE_COMMIT_SAMPLES, FORCE_COMMIT_SAMPLES + 1}

\* C12: for the tracker of every reachable state, every current_sample and
\* either has_pause, should_commit is true exactly when current_sample -
\* last_commit_sample >= 12,800 and (has_pause or that distance >= 128,000);
\* and no call commits while total_samples - last_commit_sample < 12,800.
C12_ShouldCommitExact ==
    /\ \A d \in PolicyDistances \cup {total_samples - chunk_tracker.last_commit_sample} :
       \A has_pause \in BOOLEAN :
          should_commit(chunk_tracker, chunk_tracker.last_commit_sample + d, has_pause)
              <=> (d >= MIN_CHUNK_SAMPLES /\ (has_pause \/ d >= FORCE_COMMIT_SAMPLES))
    /\ (IsChunk /\ result.is_final) =>
          total_samples - entry.last_commit_sample >= MIN_CHUNK_SAMPLES

\* a call with a pause detected and a non-blank transcription that did not
\* commit, fewer than 12,800 samples after the last commit
C12_Witness ==
    /\ IsChunk
    /\ ReturnedText
    /\ EntryPause
    /\ total_samples - entry.last_commit_sample < MIN_CHUNK_SAMPLES
    /\ ~result.is_final

\* the most samples one request of SpecSync adds to the caller's buffer
SyncMostAdded == CHOOSE n \in {s.n : s \in SyncMenu} : \A s \in SyncMenu : s.n <= n

\* C13: for a caller that reports total_samples = len(full_audio) and adds at
\* most D samples a request, the span handed to the transcription never holds
\* more than 128,000 + D samples.
C13_SpanBounded ==
    (IsChunk /\ transcribed.called) =>
        AudioLen(transcribed.samples) <= FORCE_COMMIT_SAMPLES + SyncMostAdded

\* C14: committed_samples is 0 or a total_samples reported by a call of the
\* current session (the one just served included), so it is at most the
\* largest of them; and while the session's total_samples have never
\* decreased, total_samples - committed_samples >= 0 at the entry and at the
\* exit of every call.
C14_CommittedWasReported ==
    /\ chunk_tracker.committed_samples \in {0} \cup reported
    /\ \/ chunk_tracker.committed_samples = 0
       \/ \E r \in reported : chunk_tracker.committed_samples <= r
    /\ (IsChunk /\ nondecreasing) =>
          /\ total_samples - entry.committed_samples >= 0
          /\ total_samples - chunk_tracker.committed_samples >= 0

\* a commit onto an earlier commit, in a session of at least three
\* non-decreasing reports
C14_Witness ==
    /\ IsChunk
    /\ nondecreasing
    /\ Cardinality(reported) >= 3
    /\ entry.committed_samples > 0
    /\ chunk_tracker.committed_samples > entry.committed_samples

\* the latest request reached the pause check of line 528
PauseCheckRan ==
    /\ AudioLen(full_audio) >= MIN_REQUEST_SAMPLES
    /\ AudioLen(EntryUncommitted) >= MIN_REQUEST_SAMPLES

\* the most recent HISTORY_CAPACITY entries of h, in their order
Recent(h) == IF Len(h) > HISTORY_CAPACITY
             THEN SubSeq(h, Len(h) - HISTORY_CAPACITY + 1, Len(h))
             ELSE h

\* C15: speech_rms_history never holds more than 50 entries; a call whose
\* trailing window is clear speech (rms > 0.03) leaves the history it found,
\* with the window's rms appended, cut to its most recent 50 entries (the
\* oldest evicted first); every other call and every reset leaves the history
\* as it was.
C15_HistoryIsRecent ==
    /\ Len(chunk_tracker.speech_rms_history) <= HISTORY_CAPACITY
    /\ IsChunk =>
          chunk_tracker.speech_rms_history =
              IF PauseCheckRan /\ Rms(EntryTail) > SILENCE_THRESHOLD * 2
              THEN Recent(Append(entry.speech_rms_history, Rms(EntryTail)))
              ELSE entry.speech_rms_history
    /\ op = "reset_session" =>
          chunk_tracker.speech_rms_history = entry.speech_rms_history

\* a 51st value arriving: the oldest entry has gone, the others have moved up
\* and the new value is last
C15_Witness ==
    /\ IsChunk
    /\ Len(entry.speech_rms_history) = HISTORY_CAPACITY
    /\ Len(chunk_tracker.speech_rms_history) = HISTORY_CAPACITY
    /\ chunk_tracker.speech_rms_history[HISTORY_CAPACITY] = Rms(EntryTail)
    /\ chunk_tracker.speech_rms_history[1] = entry.speech_rms_history[2]
    /\ chunk_tracker.speech_rms_history[1] # entry.speech_rms_history[1]

\* C16: a response with is_final true has an empty partial_text, commit_reason
\* "pause" or "force", commit_sample = total_samples = committed_samples after
\* the call, and a committed_text that is the committed_text held before the
\* call followed by the trimmed transcription (after a space when there was
\* text before); a response with is_final false carries no commit_reason.
C16_FinalResponse ==
    /\ (IsChunk /\ result.is_final) =>
          /\ result.partial_text = <<>>
          /\ result.commit_reason \in {"pause", "force"}
          /\ result.commit_sample = total_samples
          /\ chunk_tracker.committed_samples = total_samples
          /\ transcribed.called /\ ~transcribed.raised
          /\ result.committed_text = chunk_tracker.committed_text
          /\ result.committed_text =
                 entry.committed_text
                 \o (IF entry.committed_text = <<>> THEN <<>> ELSE <<" ">>)
                 \o strip(transcribed.text)
    /\ ~result.is_final => result.commit_reason = Absent

\* a pause commit that extends text committed earlier in the session
C16_Witness ==
    /\ IsChunk
    /\ result.is_final
    /\ result.commit_reason = "pause"
    /\ entry.committed_text # <<>>
    /\ result.commit_sample > entry.committed_samples

\* the latest request's transcription returned and the commit policy, or a
\* blank text, kept the call from committing
ReturnedUncommitted ==
    /\ IsChunk
    /\ transcribed.called
    /\ ~transcribed.raised
    /\ ~(/\ should_commit(AfterPauseCheck, total_samples, EntryPause)
         /\ strip(transcribed.text) # <<>>)

\* the latest request is the first of a reset session: 20,000 samples of
\* steady speech (0.10) with total_samples = 20000
SteadySpeechScenario ==
    /\ IsChunk
    /\ entry.committed_text = <<>>
    /\ entry.committed_samples = 0
    /\ entry.last_commit_sample = 0
    /\ entry.silence_sample_count = 0
    /\ full_audio = <<Seg(20000, 1000)>>
    /\ total_samples = 20000

\* C17: when the transcription is invoked and returns and the call does not
\* commit, the response has is_final false, partial_text = the text
\* _transcribe_audio returned, and committed_text and commit_sample = the
\* tracker's committed_text and committed_samples, which are as at entry.  In
\* the steady-speech scenario all 20,000 samples are handed to the
\* transcription and the response has is_final false, committed_text "" and
\* partial_text = the returned text.
C17_PartialResponse ==
    /\ ReturnedUncommitted =>
          /\ result.type = "success"
          /\ result.is_final = FALSE
          /\ result.partial_text = transcribed.text
          /\ result.committed_text = chunk_tracker.committed_text
          /\ result.commit_sample = chunk_tracker.committed_samples
          /\ CommitFieldsKept
    /\ SteadySpeechScenario =>
          /\ transcribed.called
          /\ transcribed.samples = full_audio
          /\ ~transcribed.raised =>
                /\ result.is_final = FALSE
                /\ result.committed_text = <<>>
                /\ result.partial_text = transcribed.text

\* the steady-speech scenario after a reset_session, answered "hello world"
C17_Witness ==
    /\ SteadySpeechScenario
    /\ calls > 1
    /\ ReturnedUncommitted
    /\ result.partial_text = HelloWorld

\* C18: a call that does not answer is_final true (input error, too little
\* new audio, noise skip, blank text, policy not met, transcription error)
\* leaves committed_text, committed_samples and last_commit_sample as they
\* were; only silence_sample_count, speech_rms_history and
\* average_speech_rms may differ from their values at entry.
C18_OnlyCommitWrites ==
    (IsChunk /\ ~result.is_final) => CommitFieldsKept

\* a call that did not commit and changed the calibration
C18_Witness ==
    /\ IsChunk
    /\ ~result.is_final
    /\ ReturnedText
    /\ chunk_tracker.speech_rms_history # entry.speech_rms_history
    /\ chunk_tracker.average_speech_rms # entry.average_speech_rms

\* C19 as claimed: a call that skips the span as noise leaves
\* silence_sample_count, speech_rms_history and average_speech_rms as they
\* were at entry.
C19_SkipTouchesNothing ==
    (IsChunk /\ result.skipped_low_volume) =>
        /\ chunk_tracker.silence_sample_count = entry.silence_sample_count
        /\ chunk_tracker.speech_rms_history = entry.speech_rms_history
        /\ chunk_tracker.average_speech_rms = entry.average_speech_rms

\* C19 amended: a call that skips the span as noise leaves the tracker as
\* the pause detection on the trailing window, which ran before the noise
\* check, left it (silence run grown or cleared, a clear-speech window taken
\* into the calibration); the noise check and the skip change nothing more.
C19_SkipKeepsPauseCheck ==
    (IsChunk /\ result.skipped_low_volume) =>
        /\ chunk_tracker = AfterPauseCheck
        /\ CommitFieldsKept

\* a noise skip whose silence run differs from the run at entry
C19_Witness ==
    /\ IsChunk
    /\ result.skipped_low_volume
    /\ chunk_tracker.silence_sample_count # entry.silence_sample_count

\* the trailing window the claim describes: the last min(16,000, len) samples
\* of full_audio[committed_samples:]; the silence run and the pause flag it
\* leads to from the run held at entry
ClaimedWindow ==
    LET len == AudioLen(EntrySpan)
    IN  Drop(EntrySpan, len - (IF len < SAMPLE_RATE THEN len ELSE SAMPLE_RATE))
ClaimedRun ==
    IF Rms(ClaimedWindow) < SILENCE_THRESHOLD
    THEN entry.silence_sample_count + AudioLen(ClaimedWindow)
    ELSE 0
ClaimedPause == ClaimedRun >= SILENCE_SAMPLES

\* C20: in a call whose uncommitted span has at least 4,000 samples, the
\* pause detection looks at the last min(16,000, len(span)) samples of the
\* span: with rms < 0.015 the silence run grows by the whole window length,
\* otherwise it becomes 0; the pause flag is true iff the new run is at least
\* 5,600.  The run is seen in the tracker after a call that does not commit,
\* the flag in the reason of a commit and in a commit made below the force
\* limit.
C20_PauseWindow ==
    (IsChunk /\ EntrySpanLongEnough) =>
        /\ ~result.is_final => chunk_tracker.silence_sample_count = ClaimedRun
        /\ result.is_final => (result.commit_reason = "pause" <=> ClaimedPause)
        /\ (/\ ReturnedText
            /\ total_samples - entry.last_commit_sample >= MIN_CHUNK_SAMPLES
            /\ total_samples - entry.last_commit_sample < FORCE_COMMIT_SAMPLES) =>
               (result.is_final <=> ClaimedPause)

\* a silent one-second window added in full to a run that already counted
\* most of its samples
C20_Witness ==
    /\ IsChunk
    /\ EntrySpanLongEnough
    /\ entry.silence_sample_count > 0
    /\ AudioLen(ClaimedWindow) = SAMPLE_RATE
    /\ chunk_tracker.silence_sample_count = entry.silence_sample_count + SAMPLE_RATE

\* the pause flag of the latest request as it shows from outside: the reason
\* of the commit, or the silence run left in the tracker
PauseShown ==
    IF result.is_final THEN result.commit_reason = "pause"
    ELSE chunk_tracker.silence_sample_count >= SILENCE_SAMPLES

\* C21: a call whose uncommitted span is silent and 4,000 to 5,599 samples
\* long, made with an empty silence run, reports no pause and leaves the
\* span's length as the run; a following call with a silent trailing window
\* finds that run, adds its whole window to it and reports a pause.
C21_ShortSilenceAddsUp ==
    /\ (/\ IsChunk
        /\ EntrySpanLongEnough
        /\ AudioLen(EntrySpan) < SILENCE_SAMPLES
        /\ Rms(EntrySpan) < SILENCE_THRESHOLD
        /\ entry.silence_sample_count = 0) =>
           /\ ~PauseShown
           /\ ~result.is_final
           /\ chunk_tracker.silence_sample_count = AudioLen(EntrySpan)
    /\ (/\ IsChunk
        /\ PauseCheckRan
        /\ entry.silence_sample_count >= MIN_REQUEST_SAMPLES
        /\ entry.silence_sample_count < SILENCE_SAMPLES
        /\ Rms(EntryTail) < SILENCE_THRESHOLD) =>
           /\ PauseShown
           /\ ~result.is_final =>
                 chunk_tracker.silence_sample_count =
                     entry.silence_sample_count + AudioLen(EntryTail)

\* the second of two such calls: the run now holds more silent samples than
\* the recording has
C21_Witness ==
    /\ IsChunk
    /\ entry.committed_samples = 0
    /\ entry.silence_sample_count >= MIN_REQUEST_SAMPLES
    /\ entry.silence_sample_count < SILENCE_SAMPLES
    /\ Rms(full_audio) < SILENCE_THRESHOLD
    /\ ~result.is_final
    /\ chunk_tracker.silence_sample_count >= SILENCE_SAMPLES
    /\ chunk_tracker.silence_sample_count > AudioLen(full_audio)

\* C22: silence_sample_count is 0 after every call whose trailing window was
\* evaluated and is not silent, after every call that committed, and after
\* every reset.
C22_RunCleared ==
    /\ (IsChunk /\ PauseCheckRan /\ Rms(EntryTail) >= SILENCE_THRESHOLD) =>
          chunk_tracker.silence_sample_count = 0
    /\ (IsChunk /\ result.is_final) => chunk_tracker.silence_sample_count = 0
    /\ op = "reset_session" => chunk_tracker.silence_sample_count = 0

\* a pause commit over a silent window, made with silence already counted
C22_Witness ==
    /\ IsChunk
    /\ result.is_final
    /\ result.commit_reason = "pause"
    /\ entry.silence_sample_count > 0
    /\ Rms(EntryTail) < SILENCE_THRESHOLD
    /\ chunk_tracker.silence_sample_count = 0

\* a is the arithmetic mean of the entries of h, to the unit of the
\* fixed-point scale
IsMeanOf(a, h) ==
    /\ h # <<>>
    /\ a * Len(h) <= SumSeq(h)
    /\ SumSeq(h) < (a + 1) * Len(h)

\* C23: a call changes speech_rms_history and average_speech_rms only when it
\* evaluated a trailing window with rms > 0.03 (so not silent): then the rms
\* is the history's new last entry and the baseline is the mean of the
\* history's entries alone; after a call with a silent window or one with
\* rms <= 0.03, and after a call that evaluated none, both are as at entry.
C23_Calibration ==
    IsChunk =>
        IF PauseCheckRan /\ Rms(EntryTail) > 2 * SILENCE_THRESHOLD
        THEN /\ Rms(EntryTail) >= SILENCE_THRESHOLD
             /\ chunk_tracker.speech_rms_history =
                    Recent(Append(entry.speech_rms_history, Rms(EntryTail)))
             /\ IsMeanOf(chunk_tracker.average_speech_rms, chunk_tracker.speech_rms_history)
        ELSE /\ chunk_tracker.speech_rms_history = entry.speech_rms_history
             /\ chunk_tracker.average_speech_rms = entry.average_speech_rms

\* a second value arriving: the baseline is the mean of the two values, which
\* the initial estimate would have raised
C23_Witness ==
    /\ IsChunk
    /\ Len(entry.speech_rms_history) = 1
    /\ Len(chunk_tracker.speech_rms_history) = 2
    /\ chunk_tracker.speech_rms_history[1] # chunk_tracker.speech_rms_history[2]
    /\ IsMeanOf(chunk_tracker.average_speech_rms, chunk_tracker.speech_rms_history)
    /\ chunk_tracker.average_speech_rms < INITIAL_SPEECH_RMS

\* rms values on both sides of the silence threshold, of the absolute floor
\* and of 0.4 x the baseline of tracker t
RmsLevels(t) ==
    LET relative == (t.average_speech_rms * 4) \div 10
    IN  {0, SILENCE_THRESHOLD - 1, SILENCE_THRESHOLD, SILENCE_THRESHOLD + 1,
         MINIMUM_SPEECH_RMS - 1, MINIMUM_SPEECH_RMS, MINIMUM_SPEECH_RMS + 1,
         relative - 1, relative, relative + 1, INITIAL_SPEECH_RMS}

\* rms is above the silence threshold and below the absolute floor or below
\* 0.4 x baseline
ClaimedNoise(rms, baseline) ==
    /\ rms > SILENCE_THRESHOLD
    /\ rms < MINIMUM_SPEECH_RMS \/ rms * 10 < baseline * 4

\* C24: for the tracker of every reachable state and every rms,
\* is_low_volume_noise is true exactly when rms > 0.015 and (rms < 0.025 or
\* rms < 0.4 x average_speech_rms), and false whenever rms < 0.015, so nothing
\* is both silence and noise; a call that reached the noise check skipped
\* the span exactly when the span's rms is such, and the check left the
\* tracker as the pause detection had left it.
C24_NoiseExact ==
    /\ \A rms \in RmsLevels(chunk_tracker) :
          /\ noise_test(chunk_tracker, rms)
                 <=> ClaimedNoise(rms, chunk_tracker.average_speech_rms)
          /\ ~(rms < SILENCE_THRESHOLD /\ noise_test(chunk_tracker, rms))
    /\ (IsChunk /\ PauseCheckRan) =>
          /\ result.skipped_low_volume
                 <=> ClaimedNoise(Rms(EntryUncommitted), AfterPauseCheck.average_speech_rms)
          /\ is_low_volume_noise(AfterPauseCheck, EntryUncommitted)
                 <=> ClaimedNoise(Rms(EntryUncommitted), AfterPauseCheck.average_speech_rms)
          /\ result.skipped_low_volume => chunk_tracker = AfterPauseCheck
    /\ (IsChunk /\ ~PauseCheckRan) => ~result.skipped_low_volume

\* a span skipped under the absolute floor alone: it is not below 0.4 x the
\* baseline the speaker's earlier, soft speech has set
C24_Witness ==
    /\ IsChunk
    /\ PauseCheckRan
    /\ result.skipped_low_volume
    /\ entry.speech_rms_history # <<>>
    /\ Rms(EntryUncommitted) * 10 >= chunk_tracker.average_speech_rms * 4

\* committed texts and non-blank new texts that commit is tried on
PriorTexts == {<<>>, <<"a">>, <<"a", " ">>, HelloWorld}
NewTexts == {<<"b">>, <<" ", "b", " ">>, <<"b", " ", "c">>}

\* C25: for the tracker of every reachable state holding any of the prior
\* texts, commit with a non-blank text leaves the prior text, one space if
\* that text is non-empty and does not end in a space (none if it is empty),
\* and the trimmed new text; committed_samples and last_commit_sample are
\* sample_position, silence_sample_count is 0 and the calibration is as it
\* was.
C25_CommitAppends ==
    \A prior \in PriorTexts \cup {chunk_tracker.committed_text} :
    \A text \in NewTexts :
    \A sample_position \in {0, total_samples, total_samples + SAMPLE_RATE} :
        LET t == [chunk_tracker EXCEPT !.committed_text = prior]
            c == commit(t, text, sample_position)
            separator == IF prior # <<>> /\ prior[Len(prior)] # " " THEN <<" ">> ELSE <<>>
        IN  /\ c.committed_text = prior \o separator \o strip(text)
            /\ prior = <<>> => c.committed_text = strip(text)
            /\ c.committed_samples = sample_position
            /\ c.last_commit_sample = sample_position
            /\ c.silence_sample_count = 0
            /\ c.speech_rms_history = t.speech_rms_history
            /\ c.average_speech_rms = t.average_speech_rms

\* a call whose commit put one space and the new text after the text
\* committed before
C25_Witness ==
    /\ IsChunk
    /\ result.is_final
    /\ entry.committed_text # <<>>
    /\ entry.silence_sample_count > 0
    /\ chunk_tracker.committed_text = entry.committed_text \o <<" ">> \o transcribed.text

\* C26: in a call that commits, commit_reason is "pause" exactly when the
\* pause detection of that call returned true, whether or not the force
\* limit has been reached too, and "force" exactly when it returned false;
\* a "force" commit is made with total_samples - last_commit_sample >= 128,000.
C26_ReasonFollowsPause ==
    (IsChunk /\ result.is_final) =>
        /\ result.commit_reason = "pause" <=> EntryPause
        /\ result.commit_reason = "force" <=> ~EntryPause
        /\ result.commit_reason = "force" =>
              total_samples - entry.last_commit_sample >= FORCE_COMMIT_SAMPLES

\* a commit with a pause detected and the force limit reached as well
C26_Witness ==
    /\ IsChunk
    /\ result.is_final
    /\ EntryPause
    /\ total_samples - entry.last_commit_sample >= FORCE_COMMIT_SAMPLES
    /\ result.commit_reason = "pause"

\* the fewest samples one request of SpecSpeech adds to the caller's buffer
SpeechLeastAdded == CHOOSE n \in {s.n : s \in SpeechMenu} : \A s \in SpeechMenu : n <= s.n

\* the recording lasts long enough for the force limit to be reached after the
\* last commit, however little each remaining request adds
RecordingGoesOn ==
    (MaxSpeechCalls - calls) * SpeechLeastAdded
        >= FORCE_COMMIT_SAMPLES - (total_samples - chunk_tracker.last_commit_sample)

\* the latest request committed
Committing == IsChunk /\ result.is_final

\* C27: during uninterrupted speech (total_samples = len(full_audio) growing
\* every request, no silent window, no noise skip, every transcription
\* non-blank) a commit follows every point of the recording from which the
\* recording still goes on for the length of the force limit: commits recur
\* for as long as the recording lasts.
C27_SpeechCommits == (RecordingGoesOn /\ ~Committing) ~> Committing

\* a forced commit after an earlier one, the recording going on
C27_Witness ==
    /\ Committing
    /\ result.commit_reason = "force"
    /\ entry.committed_samples > 0
    /\ RecordingGoesOn

\* C28: committed_samples = last_commit_sample in every reachable state:
\* __init__ and reset() zero both, commit() assigns both the same
\* sample_position, and nothing else writes either.
C28_BoundaryFieldsAgree ==
    chunk_tracker.committed_samples = chunk_tracker.last_commit_sample

\* a second commit of a recording has moved both fields to the reported count
C28_Witness ==
    /\ Committing
    /\ entry.last_commit_sample > 0
    /\ chunk_tracker.last_commit_sample = total_samples
    /\ chunk_tracker.last_commit_sample # entry.last_commit_sample

\* the boundary moved by the latest request
BoundaryAdvance == chunk_tracker.committed_samples - entry.committed_samples

\* C29: every commit advances the boundary by at least MIN_CHUNK_SAMPLES
\* (12,800), whatever total_samples the caller reports (decreasing or repeated
\* counts included), and a request that does not commit leaves the boundary
\* where it was: committed_samples never decreases between resets.
C29_CommitAdvances ==
    IsChunk =>
        /\ result.is_final => BoundaryAdvance >= MIN_CHUNK_SAMPLES
        /\ ~result.is_final => BoundaryAdvance = 0

\* a commit after an earlier commit, in a recording whose reported counts have
\* gone down at some request
C29_Witness ==
    /\ Committing
    /\ ~nondecreasing
    /\ entry.committed_samples > 0
    /\ BoundaryAdvance >= MIN_CHUNK_SAMPLES

\* C30: when the trailing window of a call is not silent, the call's pause
\* check leaves a silence run of 0 and no pause flag, and the call does not
\* commit for a pause, however much silence earlier calls accumulated.
C30_PauseNeedsSilentWindow ==
    (IsChunk /\ PauseCheckRan /\ Rms(EntryTail) >= SILENCE_THRESHOLD) =>
        /\ ~EntryPause
        /\ AfterPauseCheck.silence_sample_count = 0
        /\ result.commit_reason # "pause"

\* a call entered with a full pause's worth of silence accumulated, whose
\* trailing window is not silent and whose transcription returned text
C30_Witness ==
    /\ IsChunk
    /\ PauseCheckRan
    /\ entry.silence_sample_count >= SILENCE_SAMPLES
    /\ Rms(EntryTail) >= SILENCE_THRESHOLD
    /\ ReturnedText

\* audio[:k] for 0 <= k
RECURSIVE Take(_, _)
Take(audio, k) ==
    IF audio = <<>> \/ k <= 0 THEN <<>>
    ELSE IF Head(audio).n <= k THEN <<Head(audio)>> \o Take(Tail(audio), k - Head(audio).n)
         ELSE <<Seg(k, Head(audio).a)>>

\* audio[from:to]
Slice(audio, from, to) == Take(Drop(audio, from), to - from)

\* the samples of the commits so far, end to end
RECURSIVE Joined(_)
Joined(chunks) ==
    IF chunks = <<>> THEN <<>> ELSE Head(chunks).samples \o Joined(Tail(chunks))

\* C31: when every request reports total_samples = len(full_audio), the audio
\* transcribed for each commit is exactly full_audio[old committed_samples :
\* new committed_samples], and the committed spans tile the stream in order:
\* the first starts at sample 0, each starts where the one before ended, the
\* last ends at the boundary, and end to end they are full_audio below the
\* boundary, every sample once.
C31_SpansTileStream ==
    /\ \A i \in 1..Len(committed_chunks) :
          /\ committed_chunks[i].from = IF i = 1 THEN 0 ELSE committed_chunks[i - 1].to
          /\ committed_chunks[i].from < committed_chunks[i].to
          /\ committed_chunks[i].samples =
                Slice(full_audio, committed_chunks[i].from, committed_chunks[i].to)
    /\ chunk_tracker.committed_samples =
          IF committed_chunks = <<>> THEN 0
          ELSE committed_chunks[Len(committed_chunks)].to
    /\ Normal(Joined(committed_chunks)) = Take(full_audio, chunk_tracker.committed_samples)
    /\ (Committing /\ total_samples = AudioLen(full_audio)) =>
          transcribed.samples =
             Slice(full_audio, entry.committed_samples, chunk_tracker.committed_samples)

\* the second commit of a stream whose first two spans differ in content
C31_Witness ==
    /\ Committing
    /\ Len(committed_chunks) >= 2
    /\ committed_chunks[1].samples # committed_chunks[2].samples
    /\ total_samples = AudioLen(full_audio)

\* the latest request returned a non-blank partial_text and did not commit
PartialLeftUncommitted ==
    /\ IsChunk
    /\ result.type = "success"
    /\ ~result.is_final
    /\ strip(result.partial_text) # <<>>

\* C32: whenever a request returns a non-blank partial_text with is_final =
\* false, total_samples - last_commit_sample < 128,000 (FORCE_COMMIT_SAMPLES)
\* in that call: a non-blank transcription is never left uncommitted once the
\* force-commit duration has been reached.
C32_TextCommittedAtForceLimit ==
    PartialLeftUncommitted =>
        /\ chunk_tracker.last_commit_sample = entry.last_commit_sample
        /\ total_samples - entry.last_commit_sample < FORCE_COMMIT_SAMPLES

\* after an earlier commit, a non-blank partial is left uncommitted by a request
\* that is past the minimum chunk size but short of the force limit
C32_Witness ==
    /\ PartialLeftUncommitted
    /\ entry.last_commit_sample > 0
    /\ total_samples - entry.last_commit_sample >= MIN_CHUNK_SAMPLES

\* the trimmed texts of the commits so far, in commit order, one space between
RECURSIVE JoinedTexts(_)
JoinedTexts(chunks) ==
    IF chunks = <<>> THEN <<>>
    ELSE IF Len(chunks) = 1 THEN strip(chunks[1].text)
    ELSE JoinedTexts(SubSeq(chunks, 1, Len(chunks) - 1))
            \o <<" ">> \o strip(chunks[Len(chunks)].text)

\* C33: in every state reached through transcribe_buffer_chunked and
\* reset_session, committed_text is empty or has neither leading nor trailing
\* whitespace, and it is the trimmed texts of the session's committed chunks,
\* in commit order, joined by exactly one space each.
C33_CommittedTextIsJoin ==
    /\ chunk_tracker.committed_text = JoinedTexts(committed_chunks)
    /\ \/ chunk_tracker.committed_text = <<>>
       \/ /\ Head(chunk_tracker.committed_text) # " "
          /\ ~endswith_space(chunk_tracker.committed_text)
    /\ \A i \in 1..Len(committed_chunks) : strip(committed_chunks[i].text) # <<>>

\* two chunks of different text committed in one session: "ok hello world"
C33_Witness ==
    /\ Len(committed_chunks) = 2
    /\ committed_chunks[1].text = Ok
    /\ committed_chunks[2].text = HelloWorld
    /\ chunk_tracker.committed_text = Ok \o <<" ">> \o HelloWorld

============================================================================
